---- MODULE Spec2Model ----
(***************************************************************************)
(* woko_scraper.py: one scrape pass (main) scrapes the overview page,      *)
(* merges the snapshot with the CSV history, writes the CSV when its text  *)
(* changed and sends one Telegram alert per fresh listing of the snapshot. *)
(*                                                                         *)
(* Time is counted in seconds (UTC).  posted_at is kept in the CSV as a    *)
(* fixed-width ISO-8601 string, whose lexicographic order is the order of  *)
(* the instants, so it is modelled by the instant itself.                  *)
(***************************************************************************)
EXTENDS Integers, Sequences, FiniteSets, TLC

\* ---------------------------------------------------------------- bounds
MaxPasses == 3
MaxSnapLen == 2
MaxPriorLen == 2
MaxLedgerPasses == 2

\* timedelta(minutes=fresh_minutes): seconds in a minute
SecondsPerMinute == 60

\* ---------------------------------------------------------------- inputs
Ids == 1..2

\* The well-formed anchors the page may show for a listing: title, posting
\* instant (already converted Zurich -> UTC), type and the href's language
\* prefix.  One is titled "NA" and one "07": read_csv does not read such a
\* title back as the text to_csv wrote.
AnchorKinds ==
  { [title |-> "Room", posted_at |-> 120, listing_type |-> "Tenant", lang |-> "en"],
    [title |-> "NA",   posted_at |-> 60,  listing_type |-> "Sublet", lang |-> "de"],
    [title |-> "07",   posted_at |-> 120, listing_type |-> "Sublet", lang |-> "en"] }

Anchors == { [id |-> i, kind |-> k, shape |-> "ok"] : i \in Ids, k \in AnchorKinds }

\* The anchors _parse_anchor does not make a record of: an href that does not
\* end in /<digits>, a text the pattern does not match, and a text the pattern
\* matches whose date or time is none (31.02.2024, 25:61).
MalformedShapes == {"no_id", "no_match", "bad_date"}

MalformedAnchors ==
  { [id |-> 1, kind |-> k, shape |-> sh] :
      k \in { x \in AnchorKinds : x.title = "Room" }, sh \in MalformedShapes }

\* datetime.now(UTC) and --fresh-window / TIME_WINDOW_MINUTES
Nows == {120, 121}
Windows == {0, 1}

\* ---------------------------------------------------------------- helpers
RECURSIVE SeqsUpTo(_, _)
SeqsUpTo(S, n) ==
  IF n = 0 THEN { <<>> }
  ELSE LET shorter == SeqsUpTo(S, n - 1)
       IN  shorter \cup { Append(s, x) : s \in { t \in shorter : Len(t) = n - 1 }, x \in S }

Range(s) == { s[i] : i \in 1..Len(s) }

IdsOf(df) == { df[i].id : i \in 1..Len(df) }

\* ---------------------------------------------------------------- scraping
\* _parse_anchor's result for a well-formed anchor
ParseAnchor(a) ==
  [ id           |-> a.id,
    title        |-> a.kind.title,
    posted_at    |-> a.kind.posted_at,
    listing_type |-> a.kind.listing_type,
    link         |-> <<"https://woko.ch", a.kind.lang, a.id>>,
    status       |-> "ACTIVE" ]

\* _parse_anchor returns None: "if not m_id" and "if not m"
ParseReturnsNone(a) == a.shape \in {"no_id", "no_match"}

\* datetime.strptime raises ValueError on a date or time that is none; nothing
\* in _parse_anchor or scrape_overview catches it
ParseRaises(a) == a.shape = "bad_date"

\* scrape_overview: one record per anchor that _parse_anchor makes a record
\* of, in page order, nothing else removed
ScrapeOverview(anchors) ==
  LET kept == SelectSeq(anchors, LAMBDA a : ~ParseReturnsNone(a))
  IN  [ i \in 1..Len(kept) |-> ParseAnchor(kept[i]) ]

Pages == SeqsUpTo(Anchors \cup MalformedAnchors, MaxSnapLen)

\* ---------------------------------------------------------------- CSV
\* A cell of the title column of a frame is a str (the TLA+ string itself) or
\* one of the values read_csv makes of a field: a missing value, an int64 or
\* a float64.  The only number the titles above can give is 7.
NaN == "float:nan"
Int7 == "int:7"
Float7 == "float:7.0"

\* The fields read_csv takes for a missing value (those of its defaults that
\* can stand in this file) and for a number.
NaStrings == {"", "NA"}
IntStrings == {"07", "7"}
FloatStrings == {"7.0"}

\* DataFrame.to_csv(index=False): str as it is, a missing value as the empty
\* field, an int64 and a float64 by their repr.
ToCsvField(v) ==
  CASE v = NaN    -> ""
    [] v = Int7   -> "7"
    [] v = Float7 -> "7.0"
    [] OTHER      -> v

ToCsv(df) == [ i \in 1..Len(df) |-> [ df[i] EXCEPT !.title = ToCsvField(@) ] ]

\* read_csv infers a column's dtype from all of its fields: int64 when every
\* field is an integer, float64 when every field is a number or missing,
\* object (the text) otherwise.
ColumnDtype(fields) ==
  IF \E f \in fields : f \notin IntStrings \cup FloatStrings \cup NaStrings THEN "object"
  ELSE IF fields \subseteq IntStrings THEN "int64"
  ELSE "float64"

ReadCsvField(dtype, f) ==
  IF f \in NaStrings THEN NaN
  ELSE IF dtype = "object" THEN f
  ELSE IF dtype = "int64" THEN Int7
  ELSE Float7

\* pd.read_csv(csv_path, dtype={"id": int}): only the id column's dtype is
\* given; posted_at, listing_type, link and status hold text no field of
\* which is a number or an NA string, so they are read back as written.
ReadCsv(rows) ==
  LET dtype == ColumnDtype({ rows[i].title : i \in 1..Len(rows) })
  IN  [ i \in 1..Len(rows) |-> [ rows[i] EXCEPT !.title = ReadCsvField(dtype, @) ] ]

\* ---------------------------------------------------------------- merge
\* Mutant: only rows that are still ACTIVE can vanish; rows already INACTIVE
\* are dropped.
VanishedRows_ActiveOnly(old_df, new_df) ==
  LET gone == SelectSeq(old_df, LAMBDA r : r.id \notin IdsOf(new_df) /\ r.status = "ACTIVE")
  IN  [ i \in 1..Len(gone) |-> [ gone[i] EXCEPT !.status = "INACTIVE" ] ]

\* old_df[~old_df["id"].isin(new_df["id"])].copy(); vanished["status"] = "INACTIVE"
VanishedRows(old_df, new_df) ==
  LET gone == SelectSeq(old_df, LAMBDA r : r.id \notin IdsOf(new_df))
  IN  [ i \in 1..Len(gone) |-> [ gone[i] EXCEPT !.status = "INACTIVE" ] ]

\* pd.concat([new_df, vanished], ignore_index=True)
Concat(new_df, vanished) == new_df \o vanished

\* Mutant: ascending=False left out, the oldest row comes first.
InsertDesc_Ascending(sorted, r) ==
  LET n == Cardinality({ i \in 1..Len(sorted) : sorted[i].posted_at <= r.posted_at })
  IN  SubSeq(sorted, 1, n) \o <<r>> \o SubSeq(sorted, n + 1, Len(sorted))

\* One step of the sort: r goes after every row that is not older than it.
InsertDesc(sorted, r) ==
  LET n == Cardinality({ i \in 1..Len(sorted) : sorted[i].posted_at >= r.posted_at })
  IN  SubSeq(sorted, 1, n) \o <<r>> \o SubSeq(sorted, n + 1, Len(sorted))

\* sort_values("posted_at", ascending=False).reset_index(drop=True): rows with
\* equal posted_at keep their relative order (numpy sorts a short array by
\* insertion, and pandas reverses before and after for the descending order).
RECURSIVE SortValues(_)
SortValues(df) ==
  IF df = <<>> THEN <<>>
  ELSE InsertDesc(SortValues(SubSeq(df, 1, Len(df) - 1)), df[Len(df)])

\* Mutant: the CSV is not read, the frame is the sorted snapshot.
MergeFrames_NoHistory(new_df, exists, old_df) == SortValues(new_df)

\* Mutant: the membership test turned round, so that the stored row of an id
\* wins over the scraped one.
MergeFrames_OldWins(new_df, exists, old_df) ==
  IF exists
    THEN SortValues(Concat(
           SelectSeq(new_df, LAMBDA r : r.id \notin IdsOf(old_df)),
           [ i \in 1..Len(old_df) |->
               IF old_df[i].id \in IdsOf(new_df) THEN old_df[i]
               ELSE [ old_df[i] EXCEPT !.status = "INACTIVE" ] ]))
    ELSE SortValues(new_df)

\* merge_history when the CSV exists (old_df) and when it does not
MergeFrames(new_df, exists, old_df) ==
  IF exists THEN SortValues(Concat(new_df, VanishedRows(old_df, new_df)))
  ELSE SortValues(new_df)

\* ---------------------------------------------------------------- persistence
\* Mutant: the stored text and the new one are compared by their length only.
CsvUnchanged_RowCount(exists, content, csv_text) == exists /\ Len(content) = Len(csv_text)

\* save_if_changed's test: path.exists() and path.read_text() == csv_text
CsvUnchanged(exists, content, csv_text) == exists /\ content = csv_text

\* ---------------------------------------------------------------- alerts
\* Mutant: the lower bound of the window taken as exclusive.
IsFresh_Strict(row, since) == row.posted_at > since

\* df[pd.to_datetime(df["posted_at"], utc=True) >= since]: no test of the type
IsFresh(row, since) == row.posted_at >= since

Since(now_, minutes) == now_ - minutes * SecondsPerMinute

FreshRows(df, minutes, now_) ==
  SelectSeq(df, LAMBDA r : IsFresh(r, Since(now_, minutes)))

\* Mutant: the reconciled frame handed to telegram_alerts.
AlertFrame_Combo(live, combo) == combo

\* main hands the scraped frame to telegram_alerts: telegram_alerts(live_df, ...)
AlertFrame(live, combo) == live

\* os.getenv gives None for a variable that is not set
Unset == "<unset>"

Tokens == {Unset, "", "123:abc"}
ChatIds == {Unset, "", "42"}

\* Mutant: one of the two secrets is taken to be enough.
HasCreds_Either(tok, chat) == tok \notin {Unset, ""} \/ chat \notin {Unset, ""}

\* telegram_alerts: "if not (token and chat_id): return"; None and "" are falsy
HasCreds(tok, chat) == tok \notin {Unset, ""} /\ chat \notin {Unset, ""}

\* Mutant: the first failed POST ends the loop (no try around it).
AttemptLog_StopAtFailure(fresh, failed) ==
  LET n == IF failed = {} THEN Len(fresh)
           ELSE CHOOSE i \in failed : \A j \in failed : i <= j
  IN  [ i \in 1..n |-> [ row |-> fresh[i], ok |-> i \notin failed ] ]

\* The loop of telegram_alerts over fresh.iterrows(): one requests.post per
\* row; a post that raises (failed) is caught by "except Exception" and logged,
\* and the loop goes on.
AttemptLog(fresh, failed) ==
  [ i \in 1..Len(fresh) |-> [ row |-> fresh[i], ok |-> i \notin failed ] ]

\* ---------------------------------------------------------------- the window
\* _env_int("TIME_WINDOW_MINUTES", 5): the default of --fresh-window
DefaultWindow == 5

\* Values of TIME_WINDOW_MINUTES, and what --fresh-window is given as
EnvValues == {Unset, "", " ", "abc", "3.5", "0", "5", "30", " 30 ", "-1"}
FlagValues ==
  { [given |-> FALSE, value |-> 0] } \cup
  { [given |-> TRUE, value |-> v] : v \in {0, 1, 5, 30, 45} }

\* (os.getenv(name) or "").strip()
Strip(raw) ==
  CASE raw = Unset  -> ""
    [] raw = " "    -> ""
    [] raw = " 30 " -> "30"
    [] OTHER        -> raw

\* the strings int() takes, and what it makes of them
IntLiterals == {"0", "5", "30", "-1"}

IntOf(str) ==
  CASE str = "0"  -> 0
    [] str = "5"  -> 5
    [] str = "30" -> 30
    [] str = "-1" -> 0 - 1

\* _env_int: int(raw) if raw else default; default on ValueError
EnvInt(raw, default) ==
  LET stripped == Strip(raw)
  IN  IF stripped = "" THEN default
      ELSE IF stripped \in IntLiterals THEN IntOf(stripped)
      ELSE default

\* Mutant: TIME_WINDOW_MINUTES, when it is an integer, wins over the flag.
FreshWindow_EnvWins(env, flag) ==
  IF Strip(env) \in IntLiterals THEN IntOf(Strip(env))
  ELSE IF flag.given THEN flag.value
  ELSE DefaultWindow

\* argparse: --fresh-window when given, else its default, which is
\* _env_int("TIME_WINDOW_MINUTES", 5)
FreshWindow(env, flag) ==
  IF flag.given THEN flag.value ELSE EnvInt(env, DefaultWindow)

\* ---------------------------------------------------------------- state
VARIABLES
  csv_exists,     \* args.csv exists on disk
  csv_rows,       \* its rows (text fields), <<>> while it does not exist
  pc,             \* where the running invocation of main is
  passes,         \* invocations started so far
  fetch,          \* requests.get of this invocation: "none", "ok" or "error"
  page,           \* scrape_overview: anchors
  live_df,        \* main: live_df
  combo_df,       \* main: combo_df
  changed,        \* main: changed
  reads,          \* reads of the CSV's content by this invocation (read_csv, read_text)
  writes,         \* path.write_text calls of this invocation
  token,          \* TELEGRAM_BOT_TOKEN
  chat_id,        \* TELEGRAM_CHAT_ID
  env_window,     \* TIME_WINDOW_MINUTES
  flag_window,    \* --fresh-window
  fresh_minutes,  \* args.fresh_window
  now,            \* telegram_alerts: now
  alerts,         \* requests.post calls of this invocation: the row, and whether it went through
  last_df,        \* history: the snapshot of the last invocation that reached save_if_changed
  prev_alerted,   \* history: the ids the invocation before this one tried to alert
  inv_pc,         \* two invocations that overlap: where each is
  inv_live,       \*   its live_df
  inv_combo,      \*   its combo_df
  inv_changed,    \*   its changed
  inv_saw,        \*   history: the invocations whose save had ended when it read the CSV
  csv_writer      \*   history: the invocation that wrote the CSV last (0: none)

store == << csv_exists, csv_rows >>
environ == << token, chat_id, env_window, flag_window >>
locals == << fetch, page, live_df, combo_df, changed, reads, writes, fresh_minutes, now, alerts >>
history == << last_df, prev_alerted >>
overlap == << inv_pc, inv_live, inv_combo, inv_changed, inv_saw, csv_writer >>

vars == << store, pc, passes, environ, locals, history, overlap >>

\* both secrets are set
creds == HasCreds(token, chat_id)

Invocations == {1, 2}

\* An invocation that has not started, and no overlapping invocations.
InitLocals ==
  /\ fetch = "none"
  /\ page = <<>>
  /\ live_df = <<>>
  /\ combo_df = <<>>
  /\ changed = FALSE
  /\ reads = 0
  /\ writes = 0
  /\ token = Unset
  /\ chat_id = Unset
  /\ fresh_minutes = 0
  /\ now = 0
  /\ alerts = <<>>
  /\ last_df = <<>>
  /\ prev_alerted = {}

NoOverlap ==
  /\ inv_pc = [ p \in Invocations |-> "off" ]
  /\ inv_live = [ p \in Invocations |-> <<>> ]
  /\ inv_combo = [ p \in Invocations |-> <<>> ]
  /\ inv_changed = [ p \in Invocations |-> FALSE ]
  /\ inv_saw = [ p \in Invocations |-> {} ]
  /\ csv_writer = 0

\* The first run: no CSV yet.
Init ==
  /\ csv_exists = FALSE
  /\ csv_rows = <<>>
  /\ pc = "start"
  /\ passes = 1
  /\ env_window = Unset
  /\ flag_window = [given |-> FALSE, value |-> 0]
  /\ InitLocals
  /\ NoOverlap

\* scrape_overview: requests.get and raise_for_status went through, the
\* page's anchors are selected
Fetch ==
  /\ pc = "start"
  /\ fetch' = "ok"
  /\ page' \in Pages
  /\ pc' = "fetched"
  /\ UNCHANGED << store, passes, environ, live_df, combo_df, changed, reads, writes,
                  fresh_minutes, now, alerts, history, overlap >>

\* Mutant: the failure is swallowed and the body of the response is parsed.
ScrapeFails_Swallowed ==
  /\ pc = "start"
  /\ fetch' = "error"
  /\ page' \in Pages
  /\ pc' = "fetched"
  /\ UNCHANGED << store, passes, environ, live_df, combo_df, changed, reads, writes,
                  fresh_minutes, now, alerts, history, overlap >>

\* requests.get or raise_for_status raises: the exception leaves main
ScrapeFails ==
  /\ pc = "start"
  /\ fetch' = "error"
  /\ pc' = "crashed"
  /\ UNCHANGED << store, passes, environ, page, live_df, combo_df, changed, reads, writes,
                  fresh_minutes, now, alerts, history, overlap >>

\* scrape_overview: the frame of the anchors' records.  A ValueError of
\* _parse_anchor leaves scrape_overview and main.
Scrape ==
  /\ pc = "fetched"
  /\ IF \E i \in 1..Len(page) : ParseRaises(page[i])
       THEN /\ pc' = "crashed"
            /\ UNCHANGED live_df
       ELSE /\ live_df' = ScrapeOverview(page)
            /\ pc' = "scraped"
  /\ page' = <<>>
  /\ UNCHANGED << store, passes, environ, fetch, combo_df, changed, reads, writes,
                  fresh_minutes, now, alerts, history, overlap >>

\* merge_history.  A frame built from no records has no columns:
\* new_df["id"] (CSV present, after read_csv) and sort_values("posted_at")
\* (CSV absent) raise KeyError, which leaves main.
MergeHistory ==
  /\ pc = "scraped"
  /\ reads' = IF csv_exists THEN reads + 1 ELSE reads
  /\ IF live_df = <<>>
       THEN /\ pc' = "crashed"
            /\ UNCHANGED combo_df
       ELSE /\ combo_df' = MergeFrames(live_df, csv_exists, ReadCsv(csv_rows))
            /\ pc' = "merged"
  /\ UNCHANGED << store, passes, environ, fetch, page, live_df, changed, writes,
                  fresh_minutes, now, alerts, history, overlap >>

\* Mutant: the text is written to the CSV twice.
SaveIfChanged_WritesTwice ==
  /\ pc = "merged"
  /\ reads' = IF csv_exists THEN reads + 1 ELSE reads
  /\ LET csv_text == ToCsv(combo_df)
     IN  IF CsvUnchanged(csv_exists, csv_rows, csv_text)
           THEN /\ changed' = FALSE
                /\ UNCHANGED << store, writes >>
           ELSE /\ csv_exists' = TRUE
                /\ csv_rows' = csv_text
                /\ writes' = writes + 2
                /\ changed' = TRUE
  /\ pc' = "saved"
  /\ last_df' = live_df
  /\ UNCHANGED << passes, environ, fetch, page, live_df, combo_df,
                  fresh_minutes, now, alerts, prev_alerted, overlap >>

\* save_if_changed: path.read_text() reads the CSV once more when it exists
SaveIfChanged ==
  /\ pc = "merged"
  /\ reads' = IF csv_exists THEN reads + 1 ELSE reads
  /\ LET csv_text == ToCsv(combo_df)
     IN  IF CsvUnchanged(csv_exists, csv_rows, csv_text)
           THEN /\ changed' = FALSE
                /\ UNCHANGED << store, writes >>
           ELSE /\ csv_exists' = TRUE
                /\ csv_rows' = csv_text
                /\ writes' = writes + 1
                /\ changed' = TRUE
  /\ pc' = "saved"
  /\ last_df' = live_df
  /\ UNCHANGED << passes, environ, fetch, page, live_df, combo_df,
                  fresh_minutes, now, alerts, prev_alerted, overlap >>

\* Mutant: the CSV is written again from the scraped frame once the alerts
\* are out.
TelegramAlerts_Rewrites ==
  /\ pc = "saved"
  /\ \E tok \in Tokens, chat \in ChatIds, w \in Windows :
       /\ token' = tok
       /\ chat_id' = chat
       /\ flag_window' = [given |-> TRUE, value |-> w]
       /\ fresh_minutes' = FreshWindow(env_window, flag_window')
       /\ IF ~HasCreds(tok, chat)
            THEN /\ alerts' = <<>>
                 /\ now' = now
                 /\ UNCHANGED store
            ELSE \E t \in Nows :
                   /\ now' = t
                   /\ LET fresh == FreshRows(AlertFrame(live_df, combo_df), fresh_minutes', t)
                      IN  \E failed \in SUBSET (1..Len(fresh)) :
                            /\ alerts' = AttemptLog(fresh, failed)
                            /\ csv_exists' = TRUE
                            /\ csv_rows' = IF failed = {} THEN csv_rows ELSE ToCsv(live_df)
  /\ pc' = "done"
  /\ UNCHANGED << passes, env_window, fetch, page, live_df, combo_df, changed, reads, writes,
                  history, overlap >>

\* Mutant: rows whose id the invocation before tried to alert are left out.
TelegramAlerts_Ledger ==
  /\ pc = "saved"
  /\ \E tok \in Tokens, chat \in ChatIds, w \in Windows :
       /\ token' = tok
       /\ chat_id' = chat
       /\ flag_window' = [given |-> TRUE, value |-> w]
       /\ fresh_minutes' = FreshWindow(env_window, flag_window')
       /\ IF ~HasCreds(tok, chat)
            THEN /\ alerts' = <<>>
                 /\ now' = now
            ELSE \E t \in Nows :
                   /\ now' = t
                   /\ LET unseen == SelectSeq(AlertFrame(live_df, combo_df),
                                              LAMBDA r : r.id \notin prev_alerted)
                          fresh == FreshRows(unseen, fresh_minutes', t)
                      IN  \E failed \in SUBSET (1..Len(fresh)) :
                            alerts' = AttemptLog(fresh, failed)
  /\ pc' = "done"
  /\ UNCHANGED << store, passes, env_window, fetch, page, live_df, combo_df, changed,
                  reads, writes, history, overlap >>

\* telegram_alerts, with the window main parsed (here: --fresh-window given):
\* without both secrets nothing is sent and now is not read; otherwise one
\* POST per fresh row, in the frame's order, each of which may fail.
TelegramAlerts ==
  /\ pc = "saved"
  /\ \E tok \in Tokens, chat \in ChatIds, w \in Windows :
       /\ token' = tok
       /\ chat_id' = chat
       /\ flag_window' = [given |-> TRUE, value |-> w]
       /\ fresh_minutes' = FreshWindow(env_window, flag_window')
       /\ IF ~HasCreds(tok, chat)
            THEN /\ alerts' = <<>>
                 /\ now' = now
            ELSE \E t \in Nows :
                   /\ now' = t
                   /\ LET fresh == FreshRows(AlertFrame(live_df, combo_df), fresh_minutes', t)
                      IN  \E failed \in SUBSET (1..Len(fresh)) :
                            alerts' = AttemptLog(fresh, failed)
  /\ pc' = "done"
  /\ UNCHANGED << store, passes, env_window, fetch, page, live_df, combo_df, changed,
                  reads, writes, history, overlap >>

\* A new process: the locals of the one before are gone, the CSV stays.
StartInvocation ==
  /\ passes' = passes + 1
  /\ pc' = "start"
  /\ fetch' = "none"
  /\ page' = <<>>
  /\ live_df' = <<>>
  /\ combo_df' = <<>>
  /\ changed' = FALSE
  /\ reads' = 0
  /\ writes' = 0
  /\ token' = Unset
  /\ chat_id' = Unset
  /\ flag_window' = [given |-> FALSE, value |-> 0]
  /\ fresh_minutes' = 0
  /\ now' = 0
  /\ alerts' = <<>>
  /\ UNCHANGED << store, env_window, last_df, overlap >>

\* The next scheduled run of the script, after this one ended.
NextPass ==
  /\ pc \in {"done", "crashed"}
  /\ passes < MaxPasses
  /\ StartInvocation
  /\ UNCHANGED prev_alerted

Next ==
  \/ Fetch
  \/ ScrapeFails
  \/ Scrape
  \/ MergeHistory
  \/ SaveIfChanged
  \/ TelegramAlerts
  \/ NextPass

Spec == Init /\ [][Next]_vars

\* The same runs, with the ids each run tried to alert remembered for the
\* run after it.
NextPassLedger ==
  /\ pc \in {"done", "crashed"}
  /\ passes < MaxLedgerPasses
  /\ StartInvocation
  /\ prev_alerted' = { alerts[i].row.id : i \in 1..Len(alerts) }

NextLedger ==
  \/ Fetch
  \/ ScrapeFails
  \/ Scrape
  \/ MergeHistory
  \/ SaveIfChanged
  \/ TelegramAlerts
  \/ NextPassLedger

SpecLedger == Init /\ [][NextLedger]_vars

\* One pass over a CSV that this run did not write: rows of the CSV's shape in
\* any order, with any status, ids repeated or not (a file edited by hand, or
\* left by another version of the script).
PriorRows ==
  { [ ParseAnchor(a) EXCEPT !.status = st ] : a \in Anchors, st \in {"ACTIVE", "INACTIVE"} }

AnyStores == SeqsUpTo(PriorRows, MaxPriorLen) \ { <<>> }

InitAnyStore ==
  /\ csv_exists = TRUE
  /\ csv_rows \in AnyStores
  /\ pc = "start"
  /\ passes = 1
  /\ env_window = Unset
  /\ flag_window = [given |-> FALSE, value |-> 0]
  /\ InitLocals
  /\ NoOverlap

NextOnePass ==
  \/ Fetch
  \/ ScrapeFails
  \/ Scrape
  \/ MergeHistory
  \/ SaveIfChanged
  \/ TelegramAlerts

SpecAnyStore == InitAnyStore /\ [][NextOnePass]_vars

\* main up to parse_args, for every TIME_WINDOW_MINUTES and --fresh-window:
\* the default of --fresh-window is computed from the environment when
\* add_argument is called, parse_args keeps it unless the flag is given.
InitWindow ==
  /\ csv_exists = FALSE
  /\ csv_rows = <<>>
  /\ pc = "start"
  /\ passes = 1
  /\ env_window \in EnvValues
  /\ flag_window \in FlagValues
  /\ InitLocals
  /\ NoOverlap

ParseArgs ==
  /\ pc = "start"
  /\ fresh_minutes' = FreshWindow(env_window, flag_window)
  /\ pc' = "parsed"
  /\ UNCHANGED << store, passes, environ, fetch, page, live_df, combo_df, changed, reads,
                  writes, now, alerts, history, overlap >>

SpecWindow == InitWindow /\ [][ParseArgs]_vars

\* Two invocations of main on the same CSV (overlapping scheduled runs), each
\* with its own locals; which of them takes the next step is free.  What each
\* does after save_if_changed (telegram_alerts) does not touch the CSV and is
\* left out.
InitOverlap ==
  /\ csv_exists = FALSE
  /\ csv_rows = <<>>
  /\ pc = "start"
  /\ passes = 1
  /\ env_window = Unset
  /\ flag_window = [given |-> FALSE, value |-> 0]
  /\ InitLocals
  /\ NoOverlap

Ended(p) == inv_pc[p] \in {"saved", "crashed"}

\* scrape_overview of invocation p: the fetch raises, _parse_anchor raises, or
\* the frame of the page's records is returned
ScrapeI(p) ==
  /\ inv_pc[p] = "off"
  /\ \/ /\ inv_pc' = [inv_pc EXCEPT ![p] = "crashed"]
        /\ UNCHANGED inv_live
     \/ \E anchors \in Pages :
          IF \E i \in 1..Len(anchors) : ParseRaises(anchors[i])
            THEN /\ inv_pc' = [inv_pc EXCEPT ![p] = "crashed"]
                 /\ UNCHANGED inv_live
            ELSE /\ inv_live' = [inv_live EXCEPT ![p] = ScrapeOverview(anchors)]
                 /\ inv_pc' = [inv_pc EXCEPT ![p] = "scraped"]
  /\ UNCHANGED << store, pc, passes, environ, locals, history,
                  inv_combo, inv_changed, inv_saw, csv_writer >>

\* merge_history of invocation p, on the CSV as it is on disk now
MergeI(p) ==
  /\ inv_pc[p] = "scraped"
  /\ inv_saw' = [inv_saw EXCEPT ![p] = { q \in Invocations \ {p} : Ended(q) }]
  /\ IF inv_live[p] = <<>>
       THEN /\ inv_pc' = [inv_pc EXCEPT ![p] = "crashed"]
            /\ UNCHANGED inv_combo
       ELSE /\ inv_combo' = [inv_combo EXCEPT
                               ![p] = MergeFrames(inv_live[p], csv_exists, ReadCsv(csv_rows))]
            /\ inv_pc' = [inv_pc EXCEPT ![p] = "merged"]
  /\ UNCHANGED << store, pc, passes, environ, locals, history,
                  inv_live, inv_changed, csv_writer >>

\* save_if_changed of invocation p up to its return or its write: the test
\* "path.exists() and path.read_text() == csv_text" on the CSV as it is now
CompareI(p) ==
  /\ inv_pc[p] = "merged"
  /\ IF CsvUnchanged(csv_exists, csv_rows, ToCsv(inv_combo[p]))
       THEN /\ inv_changed' = [inv_changed EXCEPT ![p] = FALSE]
            /\ inv_pc' = [inv_pc EXCEPT ![p] = "saved"]
       ELSE /\ inv_pc' = [inv_pc EXCEPT ![p] = "writing"]
            /\ UNCHANGED inv_changed
  /\ UNCHANGED << store, pc, passes, environ, locals, history,
                  inv_live, inv_combo, inv_saw, csv_writer >>

\* path.write_text(csv_text) of invocation p, whatever the CSV holds by now
WriteI(p) ==
  /\ inv_pc[p] = "writing"
  /\ csv_exists' = TRUE
  /\ csv_rows' = ToCsv(inv_combo[p])
  /\ csv_writer' = p
  /\ inv_changed' = [inv_changed EXCEPT ![p] = TRUE]
  /\ inv_pc' = [inv_pc EXCEPT ![p] = "saved"]
  /\ UNCHANGED << pc, passes, environ, locals, history, inv_live, inv_combo, inv_saw >>

NextOverlap ==
  \/ \E p \in Invocations : ScrapeI(p)
  \/ \E p \in Invocations : MergeI(p)
  \/ \E p \in Invocations : CompareI(p)
  \/ \E p \in Invocations : WriteI(p)

SpecOverlap == InitOverlap /\ [][NextOverlap]_vars

\* ---------------------------------------------------------------- properties
SaveStep == pc = "merged" /\ pc' = "saved"

SameFields(a, b) ==
  /\ a.title = b.title
  /\ a.posted_at = b.posted_at
  /\ a.listing_type = b.listing_type
  /\ a.link = b.link

\* C1: after every completed pass the persisted store holds at most one row
\* per id.
C1_OneRowPerId ==
  pc \in {"saved", "done"} =>
    \A i, j \in 1..Len(csv_rows) : csv_rows[i].id = csv_rows[j].id => i = j

\* C2: every row of the prior store whose id is absent from the snapshot is in
\* the reconciled set as INACTIVE, with the title, posted_at, listing_type and
\* link it has in the prior store.
C2_VanishedKeepFields ==
  pc = "merged" =>
    \A i \in 1..Len(csv_rows) :
      csv_rows[i].id \notin IdsOf(live_df) =>
        \E j \in 1..Len(combo_df) :
          /\ combo_df[j].id = csv_rows[i].id
          /\ combo_df[j].status = "INACTIVE"
          /\ SameFields(ToCsv(combo_df)[j], csv_rows[i])

\* C3: an id stored as INACTIVE that is in the snapshot is, after the pass,
\* stored as ACTIVE rows that are exactly the snapshot's records of that id.
C3_Reappearance ==
  [][ SaveStep =>
        \A i \in 1..Len(csv_rows) :
          (csv_rows[i].status = "INACTIVE" /\ csv_rows[i].id \in IdsOf(live_df)) =>
            /\ \A j \in 1..Len(csv_rows') :
                 csv_rows'[j].id = csv_rows[i].id =>
                   /\ csv_rows'[j].status = "ACTIVE"
                   /\ csv_rows'[j] \in Range(live_df)
            /\ \A k \in 1..Len(live_df) :
                 live_df[k].id = csv_rows[i].id => live_df[k] \in Range(csv_rows')
    ]_vars

\* The merge has run on a snapshot that holds an id stored as INACTIVE, with
\* other fields than the stored ones.
C3_Witness ==
  /\ pc = "merged"
  /\ \E i \in 1..Len(csv_rows), k \in 1..Len(live_df) :
       /\ csv_rows[i].status = "INACTIVE"
       /\ live_df[k].id = csv_rows[i].id
       /\ live_df[k].title # csv_rows[i].title
       /\ live_df[k].posted_at # csv_rows[i].posted_at
       /\ \E j \in 1..Len(combo_df) : combo_df[j] = live_df[k]

\* C4: no step removes an id from the store, and a completed reconcile-and-save
\* leaves exactly the ids of the store before it and of the snapshot.
C4_IdsNeverShrink ==
  [][ /\ IdsOf(csv_rows) \subseteq IdsOf(csv_rows')
      /\ SaveStep => IdsOf(csv_rows') = IdsOf(csv_rows) \cup IdsOf(live_df)
    ]_vars

\* A store written in the third pass that still holds, as INACTIVE, a row of
\* an id that the pass's snapshot does not show.
C4_Witness ==
  /\ pc = "saved"
  /\ passes = 3
  /\ changed
  /\ \E i \in 1..Len(csv_rows) :
       /\ csv_rows[i].status = "INACTIVE"
       /\ csv_rows[i].id \notin IdsOf(live_df)

\* C5: a pass whose scrape yields zero records does not raise, and its
\* reconciled set is the prior store with every row INACTIVE.
C5_EmptyScrapeCompletes ==
  [][ (pc = "scraped" /\ live_df = <<>>) =>
        /\ pc' = "merged"
        /\ Len(combo_df') = Len(csv_rows)
        /\ \A j \in 1..Len(combo_df') : combo_df'[j].status = "INACTIVE"
    ]_vars

\* C6: a pass that reconciles and saves the same snapshot as the pass before
\* it leaves the store as that pass left it.
C6_SameSnapshotSameStore ==
  [][ (SaveStep /\ live_df = last_df) =>
        /\ csv_exists' = csv_exists
        /\ csv_rows' = csv_rows
    ]_vars

\* C7: save_if_changed writes exactly when the store is absent or its content
\* is not the serialization of the reconciled set; it returns whether it
\* wrote, and without a write the store is as it was.
C7_WriteIffChanged ==
  [][ SaveStep =>
        LET wrote == writes' = writes + 1
        IN  /\ wrote <=> (~csv_exists \/ csv_rows # ToCsv(combo_df))
            /\ changed' <=> wrote
            /\ wrote => (csv_exists' /\ csv_rows' = ToCsv(combo_df))
            /\ ~wrote => (writes' = writes /\ csv_exists' = csv_exists /\ csv_rows' = csv_rows)
    ]_vars

\* save_if_changed has returned False on an existing store that holds
\* vanished rows: nothing was written.
C7_Witness ==
  /\ pc = "saved"
  /\ csv_exists
  /\ ~changed
  /\ writes = 0
  /\ csv_rows = ToCsv(combo_df)
  /\ \E i \in 1..Len(csv_rows) : csv_rows[i].status = "INACTIVE"

NewestFirst(rows) ==
  \A i \in 1..(Len(rows) - 1) : rows[i].posted_at >= rows[i + 1].posted_at

\* C8: after a completed reconcile-and-save the rows of the store are in
\* non-increasing order of posted_at, whatever the order of the prior store.
C8_NewestFirst == pc \in {"saved", "done"} => NewestFirst(csv_rows)

\* The merge has run on a prior store whose rows were oldest first and all
\* vanish, and on a snapshot that is itself oldest first.
C8_Witness ==
  /\ pc = "merged"
  /\ ~NewestFirst(csv_rows)
  /\ ~NewestFirst(live_df)
  /\ IdsOf(csv_rows) \cap IdsOf(live_df) = {}
  /\ Len(combo_df) = Len(csv_rows) + Len(live_df)

AlertedRows == [ i \in 1..Len(alerts) |-> alerts[i].row ]

\* C9: with credentials set, the rows alerted are exactly the rows of the
\* snapshot with posted_at >= now - window_minutes, in the snapshot's order.
C9_FreshIffInWindow ==
  (pc = "done" /\ creds) =>
    AlertedRows =
      SelectSeq(live_df, LAMBDA r : r.posted_at >= now - fresh_minutes * SecondsPerMinute)

\* An alert went out for a listing posted exactly window_minutes before now,
\* with a window that is not empty.
C9_Witness ==
  /\ pc = "done"
  /\ creds
  /\ fresh_minutes > 0
  /\ \E i \in 1..Len(alerts) :
       alerts[i].row.posted_at = now - fresh_minutes * SecondsPerMinute

\* C10: every alert of a pass is for a record of its snapshot, and no id that
\* the reconciled set holds as INACTIVE is alerted.
C10_AlertsOnlySnapshot ==
  pc = "done" =>
    /\ \A i \in 1..Len(alerts) : alerts[i].row \in Range(live_df)
    /\ \A j \in 1..Len(combo_df) :
         combo_df[j].status = "INACTIVE" =>
           \A i \in 1..Len(alerts) : alerts[i].row.id # combo_df[j].id

\* Alerts went out while the reconciled set held a vanished row that is
\* inside the window.
C10_Witness ==
  /\ pc = "done"
  /\ creds
  /\ alerts # <<>>
  /\ \E j \in 1..Len(combo_df) :
       /\ combo_df[j].status = "INACTIVE"
       /\ combo_df[j].posted_at >= now - fresh_minutes * SecondsPerMinute

AlertStep == pc = "saved" /\ pc' = "done"

NoSecret(v) == v = Unset \/ v = ""

\* C11: with both secrets set, telegram_alerts makes one attempt per fresh
\* row, in the order of the filtered frame, whichever attempts fail, and
\* returns to main.
C11_OneAttemptPerFreshRow ==
  [][ (pc = "saved" /\ ~NoSecret(token') /\ ~NoSecret(chat_id')) =>
        LET fresh == FreshRows(live_df, fresh_minutes', now')
        IN  /\ pc' = "done"
            /\ Len(alerts') = Len(fresh)
            /\ \A i \in 1..Len(fresh) : alerts'[i].row = fresh[i]
    ]_vars

\* The first attempt of a pass failed and the attempt for the next fresh row
\* was made and went through.
C11_Witness ==
  /\ pc = "done"
  /\ Len(alerts) >= 2
  /\ ~alerts[1].ok
  /\ alerts[2].ok
  /\ alerts[1].row # alerts[2].row

\* C12: with the token or the chat id unset or empty, telegram_alerts makes no
\* attempt and returns, and the CSV is what save_if_changed left.
C12_NoCredsNoAttempt ==
  [][ (pc = "saved" /\ (NoSecret(token') \/ NoSecret(chat_id'))) =>
        /\ pc' = "done"
        /\ alerts' = <<>>
        /\ csv_exists' = csv_exists
        /\ csv_rows' = csv_rows
        /\ changed' = changed
    ]_vars

\* A pass that wrote the CSV and scraped listings ended without an attempt,
\* with the token set and the chat id empty.
C12_Witness ==
  /\ pc = "done"
  /\ ~NoSecret(token)
  /\ chat_id = ""
  /\ live_df # <<>>
  /\ changed
  /\ alerts = <<>>

WellFormed(anchors) == SelectSeq(anchors, LAMBDA a : a.shape = "ok")

\* C14: whatever anchors the page holds, extraction ends with the snapshot of
\* exactly the records of the well-formed ones: an anchor without a numeric
\* id, with a text that does not match, or with a date that is no calendar
\* date, is skipped.
C14_MalformedSkipped ==
  [][ pc = "fetched" =>
        /\ pc' = "scraped"
        /\ live_df' = [ i \in 1..Len(WellFormed(page)) |-> ParseAnchor(WellFormed(page)[i]) ]
    ]_vars

IsIntEnv(env) == env \in {"0", "5", "30", " 30 ", "-1"}

\* C15 as stated: TIME_WINDOW_MINUTES, when it is an integer, is the window
\* even if --fresh-window is given; else the flag if given; else 5.
C15_EnvWins ==
  pc = "parsed" =>
    /\ IsIntEnv(env_window) => fresh_minutes = IntOf(Strip(env_window))
    /\ (~IsIntEnv(env_window) /\ flag_window.given) => fresh_minutes = flag_window.value
    /\ (~IsIntEnv(env_window) /\ ~flag_window.given) => fresh_minutes = 5

\* C15 amended: --fresh-window, when given, is the window even if
\* TIME_WINDOW_MINUTES is an integer; else TIME_WINDOW_MINUTES if it is an
\* integer; else (unset, blank, not an integer) 5.
C15_FlagWins ==
  pc = "parsed" =>
    /\ flag_window.given => fresh_minutes = flag_window.value
    /\ (~flag_window.given /\ IsIntEnv(env_window)) => fresh_minutes = IntOf(Strip(env_window))
    /\ (~flag_window.given /\ ~IsIntEnv(env_window)) => fresh_minutes = 5

\* Both given, with different values: TIME_WINDOW_MINUTES=30, --fresh-window 45.
C15_Witness ==
  /\ pc = "parsed"
  /\ env_window = "30"
  /\ flag_window = [given |-> TRUE, value |-> 45]
  /\ fresh_minutes = 45

\* C16: every attempted alert is for a listing of type Tenant.
C16_OnlyTenantAlerted ==
  \A i \in 1..Len(alerts) : alerts[i].row.listing_type = "Tenant"

\* C17: in every pass with both secrets set, each row of the snapshot inside
\* the window gets an attempt, also when the invocation before tried to alert
\* its id.
C17_NoAlertMemory ==
  (pc = "done" /\ creds) =>
    \A k \in 1..Len(live_df) :
      live_df[k].posted_at >= now - fresh_minutes * SecondsPerMinute =>
        \E i \in 1..Len(alerts) : alerts[i].row = live_df[k]

\* The second of two consecutive passes has made an attempt for an id that the
\* first one made an attempt for.
C17_Witness ==
  /\ pc = "done"
  /\ passes = 2
  /\ creds
  /\ \E i \in 1..Len(alerts) : alerts[i].row.id \in prev_alerted

\* C19 as stated: an invocation reads the CSV once and writes it at most
\* once.
C19_OneReadOneWrite == reads <= 1 /\ writes <= 1

\* C19 amended: an invocation reads the CSV at most twice, once in
\* merge_history (read_csv) and once in save_if_changed (read_text), both
\* before its only write, and writes it at most once.
C19_TwoReadsOneWrite ==
  /\ reads <= 2
  /\ writes <= 1
  /\ pc \in {"start", "fetched", "scraped"} => (reads = 0 /\ writes = 0)
  /\ pc = "merged" => (reads <= 1 /\ writes = 0)
  /\ pc = "done" => (csv_exists /\ csv_rows = ToCsv(combo_df))

\* An invocation that found a CSV has read it in merge_history and in
\* save_if_changed and then written it.
C19_Witness ==
  /\ pc = "saved"
  /\ reads = 2
  /\ writes = 1
  /\ changed

\* C20: attempts are made only once save_if_changed has returned, no write
\* comes after an attempt, and telegram_alerts leaves the CSV as it is whatever
\* the attempts' outcomes.
C20_WriteBeforeAlerts ==
  [][ /\ (alerts' # alerts /\ alerts' # <<>>) =>
            /\ pc = "saved"
            /\ writes' = writes
      /\ writes' > writes => (alerts = <<>> /\ alerts' = <<>>)
      /\ AlertStep =>
            /\ csv_exists' = csv_exists
            /\ csv_rows' = csv_rows
            /\ csv_rows' = ToCsv(combo_df)
    ]_vars

\* A pass wrote the CSV, vanished rows included, and then made an attempt that
\* failed and one that went through.
C20_Witness ==
  /\ pc = "done"
  /\ changed
  /\ \E j \in 1..Len(combo_df) : combo_df[j].status = "INACTIVE"
  /\ \E i, k \in 1..Len(alerts) : ~alerts[i].ok /\ alerts[k].ok

ScrapedIds == UNION { IdsOf(inv_live[p]) : p \in Invocations }

\* one of the two read the CSV only after the other had ended
OneAtATime == \E p \in Invocations : inv_saw[p] # {}

\* C18: the CSV is the version of the invocation that wrote last; and when the
\* two invocations ran one at a time, every id either of them scraped is in
\* the CSV once both have ended.
C18_LastWriterWins ==
  /\ csv_writer # 0 => csv_rows = ToCsv(inv_combo[csv_writer])
  /\ ((\A p \in Invocations : Ended(p)) /\ OneAtATime) =>
        ScrapedIds \subseteq IdsOf(csv_rows)

\* Both read the CSV before either wrote it, both wrote, and an id that the
\* first writer scraped and wrote is not in the CSV the second one left.
C18_Witness ==
  /\ \A p \in Invocations : inv_pc[p] = "saved" /\ inv_changed[p] /\ inv_saw[p] = {}
  /\ csv_writer = 2
  /\ \E k \in 1..Len(inv_combo[1]) : inv_combo[1][k].id \notin IdsOf(csv_rows)

====
